---- MODULE Spec2Model ----
(***************************************************************************)
(* Model of the `sais` command of is-sais-down-bot (src/main.rs).          *)
(*                                                                         *)
(* Every invocation of the command is one asynchronous task.  The tasks    *)
(* share the serenity data map (an RwLock, taken for writing) and the      *)
(* SaisClient behind an async Mutex.  A task is suspended only at an       *)
(* .await, so every action below runs from one await to the next.          *)
(*                                                                         *)
(* Strings are sequences of tokens.  Cookie values and response bodies are *)
(* sequences of one-character tokens; the fixed texts of the replies are   *)
(* single tokens.                                                          *)
(*                                                                         *)
(* Environment taken as given: the TypeMap holds the SaisClientContainer   *)
(* that main inserts, the guild has an emoji for each of the four tags of  *)
(* emoji_ids and Set-Cookie values are visible ASCII, so that none of the  *)
(* unwrap() calls of sais and save_cookies_from_response panics.           *)
(***************************************************************************)
EXTENDS Integers, Sequences, FiniteSets, TLC

\* ---------------------------------------------------------------- bounds
NumProcs == 2
MaxInvocations == 2
MaxSetCookie == 2
MaxBodyLen == 3

Procs == 1..NumProcs

\* ------------------------------------------------------- input alphabets
\* Set-Cookie header values a GET response may carry.
CookieValues == { <<"a">>, <<"b", "c">> }
\* Status codes a GET response may carry (both edges of the 2xx range).
Statuses == {199, 200, 299, 300, 404}
\* Characters of a POST response body.
BodyChars == {"o", "k"}
\* Readings of Utc::now(), in seconds since midnight UTC: 03:59:59, whose
\* UTC+8 time is on the same day, and 17:05:09, whose UTC+8 time is past
\* midnight.
UtcTimes == { 3 * 3600 + 59 * 60 + 59, 17 * 3600 + 5 * 60 + 9 }

RECURSIVE SeqsUpTo(_, _)
SeqsUpTo(S, n) ==
    IF n = 0 THEN { <<>> }
    ELSE LET shorter == SeqsUpTo(S, n - 1)
         IN  shorter \cup { Append(s, x) : s \in shorter, x \in S }

HeaderLists == SeqsUpTo(CookieValues, MaxSetCookie)
Bodies == SeqsUpTo(BodyChars, MaxBodyLen)

\* --------------------------------------------------------- configuration
\* SaisConfig.login_success_string (config/sais.ron).
login_success_string == <<"o", "k">>
\* The literal of the second test of can_login.
InvalidCredentialsString == <<"k", "o">>
\* DiscordConfig.emoji_ids: tag -> emoji id.
emoji_ids ==
    [t \in {"login_ok", "login_fail", "status_code_fail", "response_fail"} |->
        CASE t = "login_ok" -> 1
          [] t = "login_fail" -> 2
          [] t = "status_code_fail" -> 3
          [] t = "response_fail" -> 4]
\* The emojis of the guild returned by get_guild, as MessageBuilder.emoji
\* renders them: id -> mention.
GuildEmojis == <<"<:login_ok:1>", "<:login_fail:2>",
                 "<:status_code_fail:3>", "<:response_fail:4>">>

\* ----------------------------------------------------------------- state
VARIABLES
    pc,             \* position of each task in sais
    data,           \* keys of the TypeMap ctx.data
    dataWriters,    \* tasks holding the write guard of ctx.data
    clientHolders,  \* tasks holding the MutexGuard of the SaisClient
    cookies,        \* SaisClient.cookies
    status_string,  \* local of sais: the reply being built
    sent,           \* messages each invocation has sent to the channel
    result,         \* return value of each invocation
    cycle,          \* what the current probe cycle of each task did
    lockSeq,        \* order in which the current holders took the mutex
    invocations     \* number of invocations so far

vars == <<pc, data, dataWriters, clientHolders, cookies, status_string,
          sent, result, cycle, lockSeq, invocations>>

NoCycle ==
    [guild |-> "none", getRes |-> "none", status |-> 0, headers |-> <<>>,
     time |-> 0,
     gets |-> 0, posts |-> 0, postCookie |-> <<>>, postRes |-> "none",
     body |-> <<>>]

\* ------------------------------------------------------ pure functions
\* str::contains on token sequences.
Contains(text, pat) ==
    \E i \in 0..(Len(text) - Len(pat)) :
        \A k \in 1..Len(pat) : text[i + k] = pat[k]

\* String::clear.
ClearCookies_keep(c) == c
ClearCookies(c) == <<>>

\* One iteration of the loop of save_cookies_from_response:
\* format!("{};{}", self.cookies, cookie).
AppendCookie_prepend(c, cookie) == cookie \o <<";">> \o c
AppendCookie(c, cookie) == c \o <<";">> \o cookie

\* save_cookies_from_response: the loop over all Set-Cookie headers.
RECURSIVE SaveCookies(_, _)
SaveCookies(c, hs) ==
    IF hs = <<>> THEN c
    ELSE SaveCookies(AppendCookie(c, Head(hs)), Tail(hs))

\* StatusCode::is_success.
IsSuccess_noUpper(status) == status >= 200
IsSuccess(status) == status >= 200 /\ status < 300

\* The classification of can_login: Ok(true) / Ok(false).
DidSucceed_failFirst(text) ==
    IF Contains(text, InvalidCredentialsString) THEN FALSE
    ELSE Contains(text, login_success_string)
DidSucceed_elseTrue(text) ==
    IF Contains(text, login_success_string) THEN TRUE
    ELSE IF Contains(text, InvalidCredentialsString) THEN FALSE
    ELSE TRUE
DidSucceed(text) ==
    IF Contains(text, login_success_string) THEN TRUE
    ELSE IF Contains(text, InvalidCredentialsString) THEN FALSE
    ELSE FALSE

\* current_time_utc_plus_8: the reading of the UTC clock in the zone
\* FixedOffset::east(3600 * 8), as seconds since local midnight.
SecondsPerDay == 24 * 3600
current_time_utc_plus_8_noOffset(now) == now
current_time_utc_plus_8(now) == (now + 3600 * 8) % SecondsPerDay

\* format("%H:%M:%S"): hours, minutes and seconds, two digits each.
Digits == <<"0", "1", "2", "3", "4", "5", "6", "7", "8", "9">>
TwoDigits(n) == <<Digits[(n \div 10) + 1], Digits[(n % 10) + 1]>>
FormatHMS(t) ==
    TwoDigits(t \div 3600) \o <<":">> \o TwoDigits((t \div 60) % 60)
        \o <<":">> \o TwoDigits(t % 60)

\* emojis.get(&EmojiId(*emoji_ids.get(tag).unwrap())).unwrap()
Emoji(tag) == GuildEmojis[emoji_ids[tag]]

\* The texts sais builds.
ThinkingText == <<"Let me check... :thinking:">>
NoClientText == <<"Could not get the SAIS client.">>
AsOf(now) ==
    <<"As of ">> \o FormatHMS(current_time_utc_plus_8(now)) \o <<",">>
UpMessage == <<"UP SAIS is up! ", Emoji("login_ok")>>
LoginProblemsMessage_okTag ==
    <<"UP SAIS is up, but there are login problems. ", Emoji("login_ok")>>
LoginProblemsMessage ==
    <<"UP SAIS is up, but there are login problems. ", Emoji("login_fail")>>
DownMessage == <<"UP SAIS is down... ", Emoji("status_code_fail")>>
NoResponseMessage ==
    <<"Wala na dili na gyud muload ", Emoji("response_fail")>>
\* format!("{} {}", status_string, status_message)
WithMessage(s, m) == s \o <<" ">> \o m

\* The mutex is handed out in order: the next holder comes after every
\* task that holds it.
Max(S) == CHOOSE x \in S : \A y \in S : y <= x
NextTicket(holders) == 1 + Max({0} \cup { lockSeq[q] : q \in holders })

\* Dropping a guard when sais returns gives the lock back.
Release_leak(holders, p) == holders
Release(holders, p) == holders \ {p}

\* Mutex::lock / RwLock::write are granted only when nobody holds the lock.
CanAcquire_always(holders) == TRUE
CanAcquire(holders) == holders = {}

\* The value of SaisClient.cookies after the match arm of the GET result.
CookiesAfterGet_clearAlways(c, ok, hs) ==
    IF ok THEN SaveCookies(ClearCookies(c), hs) ELSE <<>>
CookiesAfterGet(c, ok, hs) ==
    IF ok THEN SaveCookies(ClearCookies(c), hs) ELSE c

\* Where sais continues after the GET.
NextAfterGet_postOnErr(ok, status) ==
    IF ok THEN (IF IsSuccess(status) THEN "post" ELSE "reply") ELSE "post"
NextAfterGet_retryOnErr(ok, status) ==
    IF ok THEN (IF IsSuccess(status) THEN "post" ELSE "reply") ELSE "get"
NextAfterGet(ok, status) ==
    IF ok THEN (IF IsSuccess(status) THEN "post" ELSE "reply") ELSE "reply"

\* ------------------------------------------------------------------ Init
Init ==
    /\ pc = [p \in Procs |-> "idle"]
    /\ data = {"SaisClientContainer"}
    /\ dataWriters = {}
    /\ clientHolders = {}
    /\ cookies = <<>>
    /\ status_string = [p \in Procs |-> <<>>]
    /\ sent = [p \in Procs |-> <<>>]
    /\ result = [p \in Procs |-> "none"]
    /\ cycle = [p \in Procs |-> NoCycle]
    /\ lockSeq = [p \in Procs |-> 0]
    /\ invocations = 0

\* --------------------------------------------------------------- actions
\* The framework dispatches the command to a new task.
Invoke(p) ==
    /\ pc[p] \in {"idle", "done"}
    /\ invocations < MaxInvocations
    /\ invocations' = invocations + 1
    /\ pc' = [pc EXCEPT ![p] = "say"]
    /\ status_string' = [status_string EXCEPT ![p] = <<>>]
    /\ sent' = [sent EXCEPT ![p] = <<>>]
    /\ result' = [result EXCEPT ![p] = "none"]
    /\ cycle' = [cycle EXCEPT ![p] = NoCycle]
    /\ lockSeq' = [lockSeq EXCEPT ![p] = 0]
    /\ UNCHANGED <<data, dataWriters, clientHolders, cookies>>

\* msg.channel_id.say(..).await? : an error returns from sais.
Say(p) ==
    /\ pc[p] = "say"
    /\ \E ok \in BOOLEAN :
        IF ok
        THEN /\ sent' = [sent EXCEPT ![p] = Append(@, ThinkingText)]
             /\ pc' = [pc EXCEPT ![p] = "lock_data"]
             /\ UNCHANGED result
        ELSE /\ pc' = [pc EXCEPT ![p] = "done"]
             /\ result' = [result EXCEPT ![p] = "Err"]
             /\ UNCHANGED sent
    /\ UNCHANGED <<data, dataWriters, clientHolders, cookies, status_string,
                   cycle, lockSeq, invocations>>

\* ctx.data.write().await and data.get_mut::<SaisClientContainer>().
LockData(p) ==
    /\ pc[p] = "lock_data"
    /\ CanAcquire(dataWriters)
    /\ IF "SaisClientContainer" \in data
       THEN /\ dataWriters' = dataWriters \cup {p}
            /\ pc' = [pc EXCEPT ![p] = "lock_client"]
            /\ UNCHANGED <<sent, result>>
       ELSE /\ sent' = [sent EXCEPT ![p] = Append(@, NoClientText)]
            /\ pc' = [pc EXCEPT ![p] = "done"]
            /\ result' = [result EXCEPT ![p] = "Ok"]
            /\ UNCHANGED dataWriters
    /\ UNCHANGED <<data, clientHolders, cookies, status_string, cycle,
                   lockSeq, invocations>>

\* sais_client_container.lock().await
LockClient(p) ==
    /\ pc[p] = "lock_client"
    /\ CanAcquire(clientHolders)
    /\ clientHolders' = clientHolders \cup {p}
    /\ lockSeq' = [lockSeq EXCEPT ![p] = NextTicket(clientHolders)]
    /\ pc' = [pc EXCEPT ![p] = "get_guild"]
    /\ UNCHANGED <<data, dataWriters, cookies, status_string, sent, result,
                   cycle, invocations>>

\* ctx.http.get_guild(..).await? : an error returns from sais, which drops
\* both guards.
\* (GetGuild_ignoreErr: the lookup error is dropped instead of returned.)
GetGuild_ignoreErr(p) ==
    /\ pc[p] = "get_guild"
    /\ \E ok \in BOOLEAN :
        /\ pc' = [pc EXCEPT ![p] = "get"]
        /\ cycle' = [cycle EXCEPT ![p].guild = IF ok THEN "ok" ELSE "err"]
        /\ UNCHANGED <<result, dataWriters, clientHolders, lockSeq>>
    /\ UNCHANGED <<data, cookies, status_string, sent, invocations>>

GetGuild(p) ==
    /\ pc[p] = "get_guild"
    /\ \E ok \in BOOLEAN :
        IF ok
        THEN /\ pc' = [pc EXCEPT ![p] = "get"]
             /\ cycle' = [cycle EXCEPT ![p].guild = "ok"]
             /\ UNCHANGED <<result, dataWriters, clientHolders, lockSeq>>
        ELSE /\ pc' = [pc EXCEPT ![p] = "done"]
             /\ result' = [result EXCEPT ![p] = "Err"]
             /\ dataWriters' = Release(dataWriters, p)
             /\ clientHolders' = Release(clientHolders, p)
             /\ cycle' = [cycle EXCEPT ![p] = NoCycle]
             /\ lockSeq' = [lockSeq EXCEPT ![p] = 0]
    /\ UNCHANGED <<data, cookies, status_string, sent, invocations>>

\* get_response().await and the synchronous code of sais up to the next
\* await: the reply of the Err arm, or clear + save_cookies_from_response
\* and the test of the status code.
\* (GetResponse_cookiesOnSuccessOnly: the cookies are stored only after the
\* status test.)
GetResponse_cookiesOnSuccessOnly(p) ==
    /\ pc[p] = "get"
    /\ \E ok \in BOOLEAN, status \in Statuses, hs \in HeaderLists,
          now \in UtcTimes \cup {0} :
        /\ IF ok THEN now \in UtcTimes
                 ELSE status = 200 /\ hs = <<>> /\ now = 0
        /\ cookies' = IF ok /\ IsSuccess(status)
                      THEN CookiesAfterGet(cookies, ok, hs) ELSE cookies
        /\ cycle' = [cycle EXCEPT
                        ![p].getRes = IF ok THEN "ok" ELSE "err",
                        ![p].status = IF ok THEN status ELSE 0,
                        ![p].headers = hs,
                        ![p].time = now,
                        ![p].gets = @ + 1]
        /\ status_string' = [status_string EXCEPT ![p] =
                IF ~ok THEN NoResponseMessage
                ELSE IF IsSuccess(status) THEN AsOf(now)
                ELSE WithMessage(AsOf(now), DownMessage)]
        /\ pc' = [pc EXCEPT ![p] = NextAfterGet(ok, status)]
    /\ UNCHANGED <<data, dataWriters, clientHolders, sent, result, lockSeq,
                   invocations>>

GetResponse(p) ==
    /\ pc[p] = "get"
    /\ \E ok \in BOOLEAN, status \in Statuses, hs \in HeaderLists,
          now \in UtcTimes \cup {0} :
        /\ IF ok THEN now \in UtcTimes
                 ELSE status = 200 /\ hs = <<>> /\ now = 0
        /\ cookies' = CookiesAfterGet(cookies, ok, hs)
        /\ cycle' = [cycle EXCEPT
                        ![p].getRes = IF ok THEN "ok" ELSE "err",
                        ![p].status = IF ok THEN status ELSE 0,
                        ![p].headers = hs,
                        ![p].time = now,
                        ![p].gets = @ + 1]
        /\ status_string' = [status_string EXCEPT ![p] =
                IF ~ok THEN NoResponseMessage
                ELSE IF IsSuccess(status) THEN AsOf(now)
                ELSE WithMessage(AsOf(now), DownMessage)]
        /\ pc' = [pc EXCEPT ![p] = NextAfterGet(ok, status)]
    /\ UNCHANGED <<data, dataWriters, clientHolders, sent, result, lockSeq,
                   invocations>>

\* can_login().await and the match on its result: the POST carries
\* self.cookies; a failure of send() or of text() is printed only.
\* (CanLogin_replyOnErr: the Err arm sends a reply of its own.)
CanLogin_replyOnErr(p) ==
    /\ pc[p] = "post"
    /\ \E res \in {"send_err", "text_err", "ok"}, text \in Bodies :
        /\ res = "ok" \/ text = <<>>
        /\ cycle' = [cycle EXCEPT
                        ![p].posts = @ + 1,
                        ![p].postCookie = cookies,
                        ![p].postRes = res,
                        ![p].body = text]
        /\ status_string' = [status_string EXCEPT ![p] =
                IF res # "ok" THEN @
                ELSE IF DidSucceed(text) THEN WithMessage(@, UpMessage)
                ELSE WithMessage(@, LoginProblemsMessage)]
        /\ sent' = [sent EXCEPT ![p] =
                IF res # "ok" THEN Append(@, status_string[p]) ELSE @]
    /\ pc' = [pc EXCEPT ![p] = "reply"]
    /\ UNCHANGED <<data, dataWriters, clientHolders, cookies, result,
                   lockSeq, invocations>>

CanLogin(p) ==
    /\ pc[p] = "post"
    /\ \E res \in {"send_err", "text_err", "ok"}, text \in Bodies :
        /\ res = "ok" \/ text = <<>>
        /\ cycle' = [cycle EXCEPT
                        ![p].posts = @ + 1,
                        ![p].postCookie = cookies,
                        ![p].postRes = res,
                        ![p].body = text]
        /\ status_string' = [status_string EXCEPT ![p] =
                IF res # "ok" THEN @
                ELSE IF DidSucceed(text) THEN WithMessage(@, UpMessage)
                ELSE WithMessage(@, LoginProblemsMessage)]
    /\ pc' = [pc EXCEPT ![p] = "reply"]
    /\ UNCHANGED <<data, dataWriters, clientHolders, cookies, sent, result,
                   lockSeq, invocations>>

\* let _ = msg.reply(ctx, ..).await, then Ok(()): while the reply is being
\* sent the task still holds both guards; once it is sent sais runs to its
\* end without another await and the guards are dropped.
Reply(p) ==
    /\ pc[p] = "reply"
    /\ sent' = [sent EXCEPT ![p] = Append(@, status_string[p])]
    /\ result' = [result EXCEPT ![p] = "Ok"]
    /\ dataWriters' = Release(dataWriters, p)
    /\ clientHolders' = Release(clientHolders, p)
    /\ cycle' = [cycle EXCEPT ![p] = NoCycle]
    /\ lockSeq' = [lockSeq EXCEPT ![p] = 0]
    /\ status_string' = [status_string EXCEPT ![p] = <<>>]
    /\ pc' = [pc EXCEPT ![p] = "done"]
    /\ UNCHANGED <<data, cookies, invocations>>

\* The handler as a whole is explored with one POST response body for each
\* branch of can_login: no marker, the success marker, the invalid-
\* credentials string, both.  (BodySpec below explores every body.)
ProbeBodies ==
    { <<>>, login_success_string, InvalidCredentialsString, <<"o", "k", "o">> }

RepresentativeBody == \A p \in Procs : cycle[p].body \in ProbeBodies

ProbeCanLogin(p) == CanLogin(p) /\ RepresentativeBody'

Next ==
    \E p \in Procs :
        \/ Invoke(p)
        \/ Say(p)
        \/ LockData(p)
        \/ LockClient(p)
        \/ GetGuild(p)
        \/ GetResponse(p)
        \/ ProbeCanLogin(p)
        \/ Reply(p)

Spec == Init /\ [][Next]_vars

\* The classification of the POST response body is explored with every body
\* of up to MaxBodyLen characters, after a GET response that carries one
\* representative of each branch of sais (no Set-Cookie header, one clock
\* reading, the statuses 200 and 404).
RepresentativeGet ==
    \A p \in Procs :
        /\ cycle[p].headers = <<>>
        /\ cycle[p].time \in {0, 17 * 3600 + 5 * 60 + 9}
        /\ cycle[p].status \in {0, 200, 404}

BodyGetResponse(p) == GetResponse(p) /\ RepresentativeGet'

BodyNext ==
    \E p \in Procs :
        \/ Invoke(p)
        \/ Say(p)
        \/ LockData(p)
        \/ LockClient(p)
        \/ GetGuild(p)
        \/ BodyGetResponse(p)
        \/ CanLogin(p)
        \/ Reply(p)

BodySpec == Init /\ [][BodyNext]_vars

\* Scheduling: every await of sais completes (the HTTP client gives up after
\* its 30 s timeout, the runtime polls every ready task), and the tokio
\* Mutex and RwLock serve their waiters in order, so a task that asks for a
\* lock that is free again and again gets it.
Fairness ==
    \A p \in Procs :
        /\ WF_vars(Say(p))
        /\ SF_vars(LockData(p))
        /\ SF_vars(LockClient(p))
        /\ WF_vars(GetGuild(p))
        /\ WF_vars(GetResponse(p))
        /\ WF_vars(CanLogin(p))
        /\ WF_vars(Reply(p))

\* Whether an invocation ends does not depend on the data of the responses:
\* the runs checked for termination carry one representative of each branch
\* of sais (no Set-Cookie header, one clock reading, the statuses 200 and
\* 404, an empty body and a body that is the success marker).
RepresentativeData ==
    /\ RepresentativeGet
    /\ \A p \in Procs : cycle[p].body \in {<<>>, login_success_string}

FairGetResponse(p) == GetResponse(p) /\ RepresentativeData'
FairCanLogin(p) == CanLogin(p) /\ RepresentativeData'

FairNext ==
    \E p \in Procs :
        \/ Invoke(p)
        \/ Say(p)
        \/ LockData(p)
        \/ LockClient(p)
        \/ GetGuild(p)
        \/ FairGetResponse(p)
        \/ FairCanLogin(p)
        \/ Reply(p)

FairSpec == Init /\ [][FairNext]_vars /\ Fairness

\* ======================================================= claims C1 - C10
\* A task is inside a probe cycle from the moment it holds the MutexGuard of
\* the SaisClient until sais returns.
InCycle(p) == pc[p] \in {"get_guild", "get", "post", "reply"}

\* C1: in every reachable state at most one invocation is between acquiring
\* the SaisClient lock and releasing it.
C1_SingleFlight == Cardinality({ p \in Procs : InCycle(p) }) <= 1

\* One task is waiting for its POST while another invocation queues.
C1_Witness ==
    \E p, q \in Procs :
        p # q /\ pc[p] = "post" /\ pc[q] = "lock_data"

\* C2: when an invocation resets the cookies after its GET, every invocation
\* that took the lock before it and has not returned yet has already sent
\* its POST.
C2_NoInterleavedCookieWrites ==
    [][\A j \in Procs :
          (cycle[j].getRes = "none" /\ cycle'[j].getRes = "ok") =>
              \A i \in Procs \ {j} :
                  (lockSeq[i] > 0 /\ lockSeq[i] < lockSeq[j]) =>
                      cycle[i].posts > 0]_vars

\* A second invocation has reset the cookies after a first one sent its POST
\* and returned.
C2_Witness ==
    \E i, j \in Procs :
        /\ i # j
        /\ pc[i] = "done" /\ Len(sent[i]) = 2
        /\ \E t \in UtcTimes : sent[i][2] = WithMessage(AsOf(t), UpMessage)
        /\ cycle[j].getRes = "ok"

\* C3 as stated: after a GET transport failure the reply is the one of
\* NetworkError and the cookie string is empty.
C3_Original ==
    \A p \in Procs :
        (pc[p] = "reply" /\ cycle[p].getRes = "err") =>
            (status_string[p] = NoResponseMessage /\ cookies = <<>>)

\* C3 amended: after a GET transport failure the reply is the one of
\* NetworkError and the cookie string stays what it was before the GET,
\* until the cycle ends.
C3_Amended ==
    [][\A p \in Procs :
          (cycle[p].getRes = "err" \/ cycle'[p].getRes = "err") =>
              /\ cookies' = cookies
              /\ pc'[p] = "reply" => status_string'[p] = NoResponseMessage
              /\ pc'[p] = "done" =>
                    sent'[p][Len(sent'[p])] = NoResponseMessage]_vars

\* A GET has failed while the cookies of an earlier cycle are still stored.
C3_Witness ==
    \E p \in Procs :
        pc[p] = "reply" /\ cycle[p].getRes = "err" /\ cookies # <<>>

\* The cookie string the Set-Cookie headers of one response stand for.
RECURSIVE JoinCookies(_)
JoinCookies(hs) ==
    IF hs = <<>> THEN <<>>
    ELSE JoinCookies(SubSeq(hs, 1, Len(hs) - 1)) \o <<";">> \o hs[Len(hs)]

\* C4: the Cookie header of the POST is the string built from the
\* Set-Cookie headers of the GET of the same cycle, and from nothing else.
C4_PostCookieOfSameCycle ==
    \A p \in Procs :
        cycle[p].posts > 0 =>
            /\ cycle[p].postCookie = JoinCookies(cycle[p].headers)
            /\ cycle[p].headers = << <<"a">> >> =>
                    cycle[p].postCookie = <<";", "a">>

\* A POST carried ";a" in a cycle that follows a completed cycle.
C4_Witness ==
    \E p, q \in Procs :
        /\ p # q
        /\ pc[q] = "done" /\ Len(sent[q]) = 2
        /\ cycle[p].posts = 1
        /\ cycle[p].headers = << <<"a">> >>
        /\ cycle[p].postCookie = <<";", "a">>

\* C5: a GET response whose status is outside 200..299 leads to the reply
\* "UP SAIS is down..." and to no POST.
C5_NonSuccessIsServiceDown ==
    \A p \in Procs :
        (cycle[p].getRes = "ok" /\ cycle[p].status \notin 200..299) =>
            /\ pc[p] = "reply"
            /\ cycle[p].posts = 0
            /\ status_string[p] =
                 AsOf(cycle[p].time) \o
                    <<" ", "UP SAIS is down... ", "<:status_code_fail:3>">>

\* A GET was answered with 404.
C5_Witness ==
    \E p \in Procs :
        cycle[p].getRes = "ok" /\ cycle[p].status = 404 /\ pc[p] = "reply"

\* C6: after a GET transport failure no POST is issued, and a POST is issued
\* or pending only after the one GET of the same cycle returned a response.
C6_PostOnlyAfterGetResponse ==
    \A p \in Procs :
        /\ cycle[p].getRes = "err" => (pc[p] = "reply" /\ cycle[p].posts = 0)
        /\ (pc[p] = "post" \/ cycle[p].posts > 0) =>
                (cycle[p].getRes = "ok" /\ cycle[p].gets = 1)

\* A GET has failed and the task goes on to its reply without a POST.
C6_Witness ==
    \E p \in Procs :
        /\ cycle[p].getRes = "err" /\ cycle[p].gets = 1
        /\ cycle[p].posts = 0 /\ pc[p] = "reply"

\* C7: a POST response body that contains the success marker gives the reply
\* "UP SAIS is up!", whether or not it also contains the invalid-credentials
\* string.
C7_SuccessMarkerWins ==
    \A p \in Procs :
        (cycle[p].postRes = "ok"
            /\ Contains(cycle[p].body, login_success_string)) =>
                status_string[p] = WithMessage(AsOf(cycle[p].time), UpMessage)

\* A body with both markers was classified as a successful login.
C7_Witness ==
    \E p \in Procs :
        /\ cycle[p].postRes = "ok"
        /\ Contains(cycle[p].body, login_success_string)
        /\ Contains(cycle[p].body, InvalidCredentialsString)
        /\ status_string[p] = WithMessage(AsOf(cycle[p].time), UpMessage)

\* C8: a POST response body without the success marker gives the reply
\* "UP SAIS is up, but there are login problems.", with and without the
\* invalid-credentials string.
C8_NoSuccessMarkerIsLoginFailed ==
    \A p \in Procs :
        (cycle[p].postRes = "ok"
            /\ ~Contains(cycle[p].body, login_success_string)) =>
                status_string[p] =
                    WithMessage(AsOf(cycle[p].time), LoginProblemsMessage)

\* A body with neither marker was classified as a failed login.
C8_Witness ==
    \E p \in Procs :
        /\ cycle[p].postRes = "ok"
        /\ cycle[p].body # <<>>
        /\ ~Contains(cycle[p].body, login_success_string)
        /\ ~Contains(cycle[p].body, InvalidCredentialsString)
        /\ status_string[p] =
                    WithMessage(AsOf(cycle[p].time), LoginProblemsMessage)

\* Where the separator of the i-th header value stands in the cookie string:
\* after the earlier values and their separators.
RECURSIVE Offset(_, _)
Offset(hs, i) ==
    IF i = 1 THEN 0 ELSE Offset(hs, i - 1) + 1 + Len(hs[i - 1])

\* C9: after a GET response the cookie string consists of the values of its
\* Set-Cookie headers in header order, a semicolon before each, and of
\* nothing else.
C9_CookieStringLayout ==
    \A p \in Procs :
        cycle[p].getRes = "ok" =>
            LET hs == cycle[p].headers
            IN  /\ Len(cookies) = Offset(hs, Len(hs) + 1)
                /\ \A i \in 1..Len(hs) :
                      /\ cookies[Offset(hs, i) + 1] = ";"
                      /\ SubSeq(cookies, Offset(hs, i) + 2,
                                Offset(hs, i) + 1 + Len(hs[i])) = hs[i]

\* A response with the two headers "a" and "bc" left ";a;bc".
C9_Witness ==
    \E p \in Procs :
        /\ cycle[p].getRes = "ok"
        /\ cycle[p].headers = << <<"a">>, <<"b", "c">> >>
        /\ cookies = <<";", "a", ";", "b", "c">>

\* C10: an invocation whose POST failed at transport level returns an error,
\* and its reply is the reply of no other outcome.
C10_PostFailurePropagated ==
    [][\A p \in Procs :
          (cycle[p].postRes \in {"send_err", "text_err"} /\ pc'[p] = "done") =>
              /\ result'[p] = "Err"
              /\ sent'[p][Len(sent'[p])] \notin
                    { NoResponseMessage,
                      WithMessage(AsOf(cycle[p].time), DownMessage),
                      WithMessage(AsOf(cycle[p].time), UpMessage),
                      WithMessage(AsOf(cycle[p].time), LoginProblemsMessage)
                    }]_vars

\* ====================================================== claims C11 - C19
\* The value of a decimal digit.
DigitValue(c) == CHOOSE v \in 0..9 : Digits[v + 1] = c

\* A text of the shape HH:MM:SS.
IsHMS(t) ==
    /\ Len(t) = 8
    /\ t[3] = ":" /\ t[6] = ":"
    /\ \A i \in {1, 2, 4, 5, 7, 8} : \E v \in 0..9 : Digits[v + 1] = t[i]
    /\ DigitValue(t[1]) * 10 + DigitValue(t[2]) < 24
    /\ DigitValue(t[4]) < 6
    /\ DigitValue(t[7]) < 6

\* The seconds since midnight an HH:MM:SS text stands for.
SecondsOfHMS(t) ==
    (DigitValue(t[1]) * 10 + DigitValue(t[2])) * 3600
        + (DigitValue(t[4]) * 10 + DigitValue(t[5])) * 60
        + DigitValue(t[7]) * 10 + DigitValue(t[8])

\* A message that begins with "As of " and a time.
TimePrefixed(msg) ==
    Len(msg) >= 9 /\ msg[1] = "As of " /\ IsHMS(SubSeq(msg, 2, 9))

\* C11 as stated: every reply, whatever the outcome, begins with the time of
\* the probe as HH:MM:SS.
C11_Original ==
    \A p \in Procs : pc[p] = "reply" => TimePrefixed(status_string[p])

\* C11 amended: every reply after a GET that returned a response begins with
\* "As of " and the time of the probe at UTC+8 as HH:MM:SS (eight hours after
\* the UTC reading, modulo one day); the reply after a GET transport failure
\* carries no time.
C11_Amended ==
    \A p \in Procs :
        pc[p] = "reply" =>
            IF cycle[p].getRes = "ok"
            THEN /\ TimePrefixed(status_string[p])
                 /\ SecondsOfHMS(SubSeq(status_string[p], 2, 9)) =
                        (cycle[p].time + 28800) % 86400
                 /\ status_string[p][10] = ","
                 /\ cycle[p].time = 61509 =>
                        SubSeq(status_string[p], 2, 9) =
                            <<"0", "1", ":", "0", "5", ":", "0", "9">>
            ELSE ~TimePrefixed(status_string[p])

\* A probe at 17:05:09 UTC is about to be reported as of 01:05:09.
C11_Witness ==
    \E p \in Procs :
        /\ pc[p] = "reply"
        /\ cycle[p].time = 61509
        /\ SubSeq(status_string[p], 1, 10) =
              <<"As of ", "0", "1", ":", "0", "5", ":", "0", "9", ",">>

\* C12: each outcome is rendered with its own text and with the emoji of its
\* own tag: login_ok, login_fail, status_code_fail, response_fail.
C12_OwnDecorationTag ==
    \A p \in Procs :
        pc[p] = "reply" =>
            LET msg == status_string[p]
                tail == SubSeq(msg, Len(msg) - 1, Len(msg))
                n == Cardinality({ i \in DOMAIN msg :
                        \E k \in DOMAIN GuildEmojis : msg[i] = GuildEmojis[k] })
            IN  /\ cycle[p].getRes = "err" =>
                    (n = 1 /\ tail = <<"Wala na dili na gyud muload ",
                                       "<:response_fail:4>">>)
                /\ (cycle[p].getRes = "ok" /\ cycle[p].posts = 0) =>
                    (n = 1 /\ tail = <<"UP SAIS is down... ",
                                       "<:status_code_fail:3>">>)
                /\ (cycle[p].postRes = "ok"
                        /\ Contains(cycle[p].body, login_success_string)) =>
                    (n = 1 /\ tail = <<"UP SAIS is up! ", "<:login_ok:1>">>)
                /\ (cycle[p].postRes = "ok"
                        /\ ~Contains(cycle[p].body, login_success_string)) =>
                    (n = 1 /\ tail =
                        <<"UP SAIS is up, but there are login problems. ",
                          "<:login_fail:2>">>)

\* A failed login is about to be reported with the login_fail emoji.
C12_Witness ==
    \E p \in Procs :
        /\ pc[p] = "reply"
        /\ cycle[p].postRes = "ok"
        /\ cycle[p].body = <<"k", "o">>
        /\ status_string[p][Len(status_string[p])] = "<:login_fail:2>"

\* C13: a cycle issues at most one GET and at most one POST, and once a step
\* has failed or the outcome is known the task only sends its reply.
C13_NoRetry ==
    \A p \in Procs :
        /\ cycle[p].gets <= 1
        /\ cycle[p].posts <= 1
        /\ (cycle[p].getRes = "err" \/ cycle[p].postRes # "none"
                \/ (cycle[p].getRes = "ok" /\ cycle[p].status \notin 200..299))
              => pc[p] = "reply"
        /\ pc[p] = "post" => (cycle[p].gets = 1 /\ cycle[p].posts = 0)

\* A cycle whose POST failed has issued one GET and one POST and replies.
C13_Witness ==
    \E p \in Procs :
        /\ cycle[p].gets = 1 /\ cycle[p].posts = 1
        /\ cycle[p].postRes = "send_err"
        /\ pc[p] = "reply"

\* The replies (msg.reply) an invocation has sent: its messages other than
\* the "Let me check..." acknowledgement.
StatusReplies(p) ==
    Cardinality({ i \in DOMAIN sent[p] : sent[p][i] # ThinkingText })

C15_CycleTerminates ==
    \A p \in Procs :
        /\ (pc[p] \in {"say", "lock_data", "lock_client"}) ~> (pc[p] = "done")
        /\ (p \in clientHolders) ~> (p \notin clientHolders)

\* An invocation waits for the data lock while another holds both locks.
C15_Witness ==
    \E p, q \in Procs :
        /\ p # q
        /\ pc[p] = "lock_data"
        /\ q \in clientHolders /\ q \in dataWriters /\ pc[q] = "get"

\* C16: no step taken while a task is in a cycle whose GET has not returned
\* a response (before the GET, at its transport failure, until the cycle
\* ends) changes the cookie string.
C16_NoCookiesTouched ==
    [][\A p \in Procs :
          (InCycle(p) /\ cycle[p].getRes # "ok" /\ cycle'[p].getRes # "ok")
              => cookies' = cookies]_vars

\* A cycle whose GET failed ends with the cookie string ";a" of an earlier
\* cycle.
C16_Witness ==
    \E p \in Procs :
        /\ pc[p] = "reply" /\ cycle[p].getRes = "err"
        /\ cookies = <<";", "a">>

\* C17 as stated: the lock is not held while the reply is sent.
C17_Original ==
    \A p \in Procs : pc[p] = "reply" => p \notin clientHolders

\* C17 amended: the task holds both locks while its reply is sent and has
\* given them back once sais has returned.
C17_Amended ==
    \A p \in Procs :
        /\ pc[p] = "reply" => (p \in clientHolders /\ p \in dataWriters)
        /\ pc[p] = "done" => (p \notin clientHolders /\ p \notin dataWriters)

\* A task sends its reply under the lock while another invocation waits.
C17_Witness ==
    \E p, q \in Procs :
        /\ pc[p] = "reply" /\ p \in clientHolders
        /\ pc[q] = "lock_data"

\* C18: after a GET response with a status outside 200..299 the cookie
\* string is the one of the Set-Cookie headers of that response.
C18_CookiesReplacedBeforeStatus ==
    \A p \in Procs :
        (pc[p] = "reply" /\ cycle[p].getRes = "ok"
            /\ cycle[p].status \notin 200..299) =>
                /\ cookies = JoinCookies(cycle[p].headers)
                /\ cycle[p].headers = <<>> => cookies = <<>>

\* A 404 response with the header "bc" left the cookie string ";bc".
C18_Witness ==
    \E p \in Procs :
        /\ pc[p] = "reply" /\ cycle[p].status = 404
        /\ cycle[p].headers = << <<"b", "c">> >>
        /\ cookies = <<";", "b", "c">>

\* C19: a GET is issued only after the guild lookup succeeded, and a step
\* that ends an invocation at the guild lookup returns an error, after no
\* GET and no POST, leaves the cookie string and the messages sent as they
\* were (the acknowledgement only) and gives both locks back.
C19_GuildFailureEndsEarly ==
    [][\A p \in Procs :
          /\ (cycle'[p].gets > 0 \/ pc'[p] \in {"get", "post", "reply"}) =>
                cycle'[p].guild = "ok"
          /\ (pc[p] = "get_guild" /\ pc'[p] # "get") =>
              /\ pc'[p] \in {"get_guild", "done"}
              /\ pc'[p] = "done" =>
                    /\ result'[p] = "Err"
                    /\ cycle[p].gets = 0 /\ cycle[p].posts = 0
                    /\ cycle'[p].gets = 0 /\ cycle'[p].posts = 0
                    /\ cookies' = cookies
                    /\ sent'[p] = <<ThinkingText>>
                    /\ p \notin clientHolders'
                    /\ p \notin dataWriters']_vars

\* After a failed guild lookup of one invocation another one holds the lock.
C19_Witness ==
    \E p, q \in Procs :
        /\ pc[p] = "done" /\ result[p] = "Err" /\ sent[p] = <<ThinkingText>>
        /\ q \in clientHolders /\ pc[q] = "get"

====
